---- MODULE Spec2Model ----
(***************************************************************************)
(* Model of src/app.py, the Streamlit credit-scoring dashboard.            *)
(*                                                                         *)
(* One behaviour is a sequence of script runs of one server process.  A    *)
(* script run executes the file top to bottom: status check, model info,   *)
(* dataset load (memoized by st.cache_data), sidebar widgets, and, when    *)
(* the analyse button was clicked, the analysis (predict call, sections 1  *)
(* to 5, explain call, synthesis), then the footer.  The remote API and    *)
(* the user are the environment: their answers are drawn with \E at the    *)
(* step that reads them.                                                   *)
(*                                                                         *)
(* Numbers: risk scores and thresholds are percentages (0.09 is 9).        *)
(* A rendered element is a sequence of strings whose head is its kind.     *)
(***************************************************************************)
EXTENDS Integers, Sequences, FiniteSets, TLC

\* ---------------------------------------------------------------- bounds
MaxRows == 2
MaxPairRows == 1

\* ------------------------------------------------------ program constants
DefaultThreshold == 9
AgeSliderMin == 20
AgeSliderMax == 70
DaysPerYearX100 == 36525
HttpOk == 200

\* features_to_drop without the ground-truth label: the label leaks into the vector.
features_to_drop_leak == {"SK_ID_CURR", "RISK_SCORE", "DECISION"}

\* Line 121
features_to_drop == {"SK_ID_CURR", "RISK_SCORE", "DECISION", "REAL_TARGET"}

numeric_features ==
    <<"EXT_SOURCE_1", "EXT_SOURCE_2", "EXT_SOURCE_3", "DAYS_BIRTH",
      "AMT_CREDIT", "AMT_INCOME_TOTAL", "AMT_ANNUITY", "DAYS_EMPLOYED">>

\* --------------------------------------------------------------- helpers
Range(s) == {s[i] : i \in 1..Len(s)}

RECURSIVE SumSeq(_)
SumSeq(s) == IF s = <<>> THEN 0 ELSE Head(s) + SumSeq(Tail(s))

RECURSIVE Without(_, _)
\* [x for x in s if x not in drop]
Without(s, drop) ==
    IF s = <<>> THEN <<>>
    ELSE IF Head(s) \in drop THEN Without(Tail(s), drop)
         ELSE <<Head(s)>> \o Without(Tail(s), drop)

RECURSIVE Only(_, _)
\* [x for x in s if x in keep]
Only(s, keep) ==
    IF s = <<>> THEN <<>>
    ELSE IF Head(s) \in keep THEN <<Head(s)>> \o Only(Tail(s), keep)
         ELSE Only(Tail(s), keep)

\* ------------------------------------------------- the dataset on disk
\* A table is [cols |-> sequence of column names, rows |-> sequence of rows];
\* a row gives a value for every column name of the pool, a table shows only
\* the columns of its layout.  The pool holds a row aged exactly 20, a row
\* just over 30, a row over the slider's maximum that repeats an identifier,
\* and a row whose RISK_SCORE is no probability.
RowPool ==
    { [SK_ID_CURR |-> 100001, EXT_SOURCE_1 |-> 11, AMT_CREDIT |-> 21,
       DAYS_BIRTH |-> -7305,  RISK_SCORE |-> 5,   DECISION |-> "ACCORD",
       REAL_TARGET |-> 0],
      [SK_ID_CURR |-> 100002, EXT_SOURCE_1 |-> 12, AMT_CREDIT |-> 22,
       DAYS_BIRTH |-> -10958, RISK_SCORE |-> 50,  DECISION |-> "REFUS",
       REAL_TARGET |-> 1],
      [SK_ID_CURR |-> 100001, EXT_SOURCE_1 |-> 13, AMT_CREDIT |-> 23,
       DAYS_BIRTH |-> -29220, RISK_SCORE |-> 100, DECISION |-> "REFUS",
       REAL_TARGET |-> 1],
      [SK_ID_CURR |-> 100003, EXT_SOURCE_1 |-> 14, AMT_CREDIT |-> 24,
       DAYS_BIRTH |-> -18263, RISK_SCORE |-> 150, DECISION |-> "ACCORD",
       REAL_TARGET |-> 0] }

Layouts ==
    { <<"SK_ID_CURR", "EXT_SOURCE_1", "DAYS_BIRTH", "AMT_CREDIT",
        "RISK_SCORE", "DECISION", "REAL_TARGET">>,
      <<"EXT_SOURCE_1", "RISK_SCORE", "SK_ID_CURR", "DECISION",
        "DAYS_BIRTH", "REAL_TARGET", "AMT_CREDIT">>,
      <<"SK_ID_CURR", "EXT_SOURCE_1", "AMT_CREDIT",
        "RISK_SCORE", "DECISION", "REAL_TARGET">>,
      <<"EXT_SOURCE_1", "DAYS_BIRTH", "AMT_CREDIT",
        "RISK_SCORE", "DECISION", "REAL_TARGET">>,
      <<"SK_ID_CURR", "EXT_SOURCE_1", "DAYS_BIRTH", "AMT_CREDIT",
        "RISK_SCORE", "DECISION">>,
      <<"SK_ID_CURR", "DAYS_BIRTH", "RISK_SCORE", "DECISION", "REAL_TARGET">> }

RowSeqs == UNION { [1..n -> RowPool] : n \in 0..MaxRows }

NoTable == [cols |-> <<>>, rows |-> <<>>]

\* What pd.read_csv finds: an unreadable file or a table.
CsvFiles ==
    { [readable |-> FALSE, table |-> NoTable] } \cup
    { [readable |-> TRUE, table |-> [cols |-> l, rows |-> r]] :
        l \in Layouts, r \in RowSeqs }

HasColumn(df, col) == col \in Range(df.cols)

\* --------------------------------------------------------- the remote API
StatusAnswers == {"operational", "degraded", "exception"}

\* /model/info: an exception, a body without optimal_threshold, a body with it
ModelInfoAnswers ==
    { [kind |-> "exception", has_threshold |-> FALSE, optimal_threshold |-> 0],
      [kind |-> "json", has_threshold |-> FALSE, optimal_threshold |-> 0],
      [kind |-> "json", has_threshold |-> TRUE, optimal_threshold |-> 30] }

NoBody == [has_risk |-> FALSE, risk_score |-> 0, has_decision |-> FALSE,
           decision |-> "", threshold |-> 0]

Body(r, d, t) == [has_risk |-> TRUE, risk_score |-> r, has_decision |-> TRUE,
                 decision |-> d, threshold |-> t]

\* risk_score, decision and threshold as the server declares them; the last
\* two are a server whose threshold is not the dashboard's and a server whose
\* decision disagrees with its own threshold.
FullBodies ==
    { Body(5, "ACCORD", 9), Body(9, "REFUS", 9), Body(50, "REFUS", 9),
      Body(50, "ACCORD", 60), Body(5, "REFUS", 9) }

\* /predict: kind "exception" is a network failure or a timeout; kind "http"
\* carries a status, the body text and, when the text parses as JSON, the body.
PredictAnswers ==
    { [kind |-> "exception", status_code |-> 0, text |-> "", parses |-> FALSE,
       body |-> NoBody] } \cup
    { [kind |-> "http", status_code |-> s, text |-> "Internal Server Error",
       parses |-> FALSE, body |-> NoBody] : s \in {500, 422} } \cup
    { [kind |-> "http", status_code |-> HttpOk, text |-> "<html>",
       parses |-> FALSE, body |-> NoBody] } \cup
    { [kind |-> "http", status_code |-> HttpOk, text |-> "{json}",
       parses |-> TRUE, body |-> b] :
        b \in FullBodies \cup
              { [has_risk |-> FALSE, risk_score |-> 0, has_decision |-> TRUE,
                 decision |-> "ACCORD", threshold |-> 9],
                [has_risk |-> TRUE, risk_score |-> 5, has_decision |-> FALSE,
                 decision |-> "", threshold |-> 9] } }

NoResponse == [kind |-> "none", status_code |-> 0, text |-> "",
               parses |-> FALSE, body |-> NoBody]

\* /explain: exception, non-200, or a 200 whose body may lack either key
ExplainAnswers ==
    { [kind |-> "exception", status_code |-> 0, parses |-> FALSE,
       has_top_features |-> FALSE, has_interpretation |-> FALSE],
      [kind |-> "http", status_code |-> 503, parses |-> FALSE,
       has_top_features |-> FALSE, has_interpretation |-> FALSE],
      [kind |-> "http", status_code |-> HttpOk, parses |-> FALSE,
       has_top_features |-> FALSE, has_interpretation |-> FALSE],
      [kind |-> "http", status_code |-> HttpOk, parses |-> TRUE,
       has_top_features |-> FALSE, has_interpretation |-> TRUE],
      [kind |-> "http", status_code |-> HttpOk, parses |-> TRUE,
       has_top_features |-> TRUE, has_interpretation |-> FALSE],
      [kind |-> "http", status_code |-> HttpOk, parses |-> TRUE,
       has_top_features |-> TRUE, has_interpretation |-> TRUE] }

\* ------------------------------------------------------------ the sliders
AgeFilters == { <<AgeSliderMin, AgeSliderMax>>, <<AgeSliderMin, AgeSliderMin>>,
                <<40, AgeSliderMax>> }
IncomeFilters == { <<10, 20>>, <<12, 15>> }

\* ------------------------------------------------------------------ state
VARIABLES
    csv,                \* data/all_clients_test.csv as pd.read_csv finds it
    cache,              \* st.cache_data entry of load_test_data
    pc,                 \* position of the current script run
    api_ok,             \* line 41/43
    gets,               \* GET requests of this run, in order
    OPTIMAL_THRESHOLD,  \* line 35/58
    test_clients,       \* line 73
    selected_client_id, \* line 84 (0: no option to select)
    age_filter,         \* line 97
    income_filter,      \* line 105
    features,           \* line 123
    calls,              \* POST requests of this run, in order
    response,           \* line 126
    shown,              \* values displayed by sections 1 and 2
    similar,            \* section 5: subset and aggregates
    explain_resp,       \* line 387
    out,                \* elements rendered by this run, in order
    inputs,             \* what the API and the user gave this run, in order,
                        \* the income range left out
    first               \* the finished run a replayed run is compared with

vars == <<csv, cache, pc, api_ok, gets, OPTIMAL_THRESHOLD, test_clients,
          selected_client_id, age_filter, income_filter, features, calls,
          response, shown, similar, explain_resp, out, inputs, first>>

None == [readable |-> FALSE, table |-> NoTable]

NaN == [sum |-> 0, n |-> 0]

NoShown == [risk |-> -1, decision |-> "", threshold |-> -1, real |-> -1,
            bar |-> ""]

NoExplain == [kind |-> "none", status_code |-> 0, parses |-> FALSE,
              has_top_features |-> FALSE, has_interpretation |-> FALSE]

NoSimilar == [computed |-> FALSE, rows |-> <<>>, avg_risk |-> NaN,
              approval_rate |-> NaN, default_rate |-> NaN]

\* The globals and widgets of a script run before its first statement.
FreshRun ==
    /\ pc = "status"
    /\ api_ok = FALSE
    /\ gets = <<>>
    /\ OPTIMAL_THRESHOLD = DefaultThreshold
    /\ test_clients = None
    /\ selected_client_id = 0
    /\ age_filter = <<AgeSliderMin, AgeSliderMax>>
    /\ income_filter = <<10, 20>>
    /\ features = <<>>
    /\ calls = <<>>
    /\ response = NoResponse
    /\ shown = NoShown
    /\ similar = NoSimilar
    /\ explain_resp = NoExplain
    /\ out = <<>>
    /\ inputs = <<>>

\* What a finished run leaves to be observed: its requests, what it computed
\* and what it rendered.
Outcome ==
    [pc |-> pc, api_ok |-> api_ok, gets |-> gets,
     OPTIMAL_THRESHOLD |-> OPTIMAL_THRESHOLD, test_clients |-> test_clients,
     selected_client_id |-> selected_client_id, age_filter |-> age_filter,
     features |-> features, calls |-> calls, response |-> response,
     shown |-> shown, similar |-> similar, explain_resp |-> explain_resp,
     out |-> out]

NoFirst ==
    [set |-> FALSE, inputs |-> <<>>, income |-> <<10, 20>>,
     outcome |-> [pc |-> "status", api_ok |-> FALSE, gets |-> <<>>,
                  OPTIMAL_THRESHOLD |-> DefaultThreshold, test_clients |-> None,
                  selected_client_id |-> 0,
                  age_filter |-> <<AgeSliderMin, AgeSliderMax>>,
                  features |-> <<>>, calls |-> <<>>, response |-> NoResponse,
                  shown |-> NoShown, similar |-> NoSimilar,
                  explain_resp |-> NoExplain, out |-> <<>>]]

Init ==
    /\ csv \in CsvFiles
    /\ cache = [set |-> FALSE, val |-> None]
    /\ first = NoFirst
    /\ FreshRun

\* ------------------------------------------------------- rendered elements
Title == <<"title", "Dashboard Scoring Credit">>
ApiErrorElement == <<"error", "API non accessible">>
ModelSuccess == <<"success", "Modele connecte">>
ModelWarning == <<"warning", "Modele en chargement">>
LoadError == <<"error", "Erreur chargement donnees">>
DataUnavailable == <<"error", "Donnees non disponibles">>
Footer == <<"markdown", "Accessibilite WCAG 2.1">>

Rendered(o, element) == element \in Range(o)

\* The decimal text of an HTTP status the API can answer with.
StatusText(code) ==
    CASE code = 200 -> "200"
      [] code = 422 -> "422"
      [] code = 500 -> "500"
      [] code = 503 -> "503"
      [] OTHER -> "0"

\* ------------------------------------------------------------- the script
\* Lines 38-43: api_ok for one answer of GET /status; the bare except covers
\* a network failure and a body that is not the expected JSON.
ApiOk(answer) == answer = "operational"

\* Lines 49-51 without st.stop(): the error is shown and the run goes on.
AfterStatus_noStop(ok) ==
    IF ok THEN [elements |-> <<Title>>, next |-> "model_info"]
    ELSE [elements |-> <<Title, ApiErrorElement>>, next |-> "model_info"]

\* Lines 49-51: st.error and st.stop() unless api_ok.
AfterStatus(ok) ==
    IF ok THEN [elements |-> <<Title>>, next |-> "model_info"]
    ELSE [elements |-> <<Title, ApiErrorElement>>, next |-> "halted"]

\* Lines 37-51: GET /status; anything but status 'operational' stops the run.
CheckStatus ==
    /\ pc = "status"
    /\ \E answer \in StatusAnswers :
        /\ api_ok' = ApiOk(answer)
        /\ inputs' = Append(inputs, answer)
        /\ gets' = Append(gets, "/status")
        /\ out' = out \o AfterStatus(ApiOk(answer)).elements
        /\ pc' = AfterStatus(ApiOk(answer)).next
    /\ UNCHANGED <<first, csv, cache, OPTIMAL_THRESHOLD, test_clients,
                   selected_client_id, age_filter, income_filter, features,
                   calls, response, shown, similar, explain_resp>>

\* Lines 53-61: GET /model/info; the threshold of the answer replaces the
\* default one; any exception is a warning.
ModelInfo ==
    /\ pc = "model_info"
    /\ \E answer \in ModelInfoAnswers :
        /\ gets' = Append(gets, "/model/info")
        /\ inputs' = Append(inputs, answer)
        /\ IF answer.kind = "exception"
           THEN /\ out' = Append(out, ModelWarning)
                /\ UNCHANGED OPTIMAL_THRESHOLD
           ELSE /\ OPTIMAL_THRESHOLD' =
                      IF answer.has_threshold THEN answer.optimal_threshold
                      ELSE OPTIMAL_THRESHOLD
                /\ out' = Append(out, ModelSuccess)
    /\ pc' = "load"
    /\ UNCHANGED <<first, csv, cache, api_ok, test_clients, selected_client_id,
                   age_filter, income_filter, features, calls, response,
                   shown, similar, explain_resp>>

\* Lines 65-71: the body of load_test_data, None when read_csv raises.
ReadCsv(file) == IF file.readable THEN file ELSE None

\* Lines 64-77: load_test_data under st.cache_data (the first call runs the
\* body and stores its return value, later calls return the stored value and
\* replay the elements the body rendered); None stops the run.
LoadData ==
    /\ pc = "load"
    /\ LET df == IF cache.set THEN cache.val ELSE ReadCsv(csv)
       IN /\ cache' = [set |-> TRUE, val |-> df]
          /\ test_clients' = df
          /\ IF df = None
             THEN /\ out' = out \o <<LoadError, DataUnavailable>>
                  /\ pc' = "halted"
             ELSE /\ out' = out
                  /\ pc' = "sidebar"
    /\ UNCHANGED <<first, csv, api_ok, gets, OPTIMAL_THRESHOLD, selected_client_id,
                   age_filter, income_filter, features, calls, response,
                   shown, similar, explain_resp, inputs>>

\* Line 83: the identifiers offered by the selector.
client_ids(df) == { df.rows[i].SK_ID_CURR : i \in 1..Len(df.rows) }

\* Lines 79-115: the sidebar.  Line 83 reads column SK_ID_CURR outside any
\* try block: without that column the run ends in an uncaught KeyError.  The
\* user's widget values and whether the button was clicked are inputs.
Sidebar ==
    /\ pc = "sidebar"
    /\ IF ~HasColumn(test_clients.table, "SK_ID_CURR")
       THEN /\ pc' = "crashed"
            /\ UNCHANGED <<selected_client_id, age_filter, income_filter, inputs>>
       ELSE /\ \E id \in (IF client_ids(test_clients.table) = {} THEN {0}
                          ELSE client_ids(test_clients.table)) :
                 selected_client_id' = id
            /\ age_filter' \in AgeFilters
            /\ income_filter' \in IncomeFilters
            /\ \E clicked \in BOOLEAN :
                 /\ pc' = IF clicked THEN "predict" ELSE "footer"
                 /\ inputs' = Append(inputs, [id |-> selected_client_id',
                                              age |-> age_filter',
                                              clicked |-> clicked])
    /\ UNCHANGED <<first, csv, cache, api_ok, gets, OPTIMAL_THRESHOLD, test_clients,
                   features, calls, response, shown, similar, explain_resp, out>>

\* Line 119: test_clients[test_clients['SK_ID_CURR'] == selected_client_id]
Matching(df, id) ==
    LET Test(r) == r.SK_ID_CURR = id
    IN SelectSeq(df.rows, Test)

\* Lines 121-123: the values of the row for every column not in
\* features_to_drop, in the order of the row's index (the table's columns).
FeatureVector(df, client_row) ==
    LET features_list == Without(df.cols, features_to_drop)
    IN [i \in 1..Len(features_list) |-> client_row[features_list[i]]]

\* Line 434: the outer handler's element, with str(e).
AnalysisError(e) == <<"error", "Erreur lors de l'analyse : ", e>>

\* Line 431 without the status code.
PredictStatusError_noStatus(resp) == <<"error", "Erreur API">>

\* Line 431: the element of the non-200 branch.
PredictStatusError(resp) == <<"error", "Erreur API : ", StatusText(resp.status_code)>>

\* Lines 126-133 with the explain call outside the status check: a non-200
\* answer still goes on to POST /explain.
AfterPredict_explainOnError(answer) ==
    IF answer.kind = "exception"
    THEN [elements |-> <<AnalysisError("ConnectionError")>>, next |-> "footer"]
    ELSE IF answer.status_code # HttpOk
    THEN [elements |-> <<PredictStatusError(answer)>>, next |-> "explain"]
    ELSE IF ~answer.parses
    THEN [elements |-> <<AnalysisError("JSONDecodeError")>>, next |-> "footer"]
    ELSE [elements |-> <<>>, next |-> "sections"]

\* Lines 126-133 and 430-434 for one answer of POST /predict: what is rendered
\* and where the run goes.  Only a 200 answer whose body parses enters the
\* sections; any other status renders line 431 and skips to the footer.
AfterPredict(answer) ==
    IF answer.kind = "exception"
    THEN [elements |-> <<AnalysisError("ConnectionError")>>, next |-> "footer"]
    ELSE IF answer.status_code # HttpOk
    THEN [elements |-> <<PredictStatusError(answer)>>, next |-> "footer"]
    ELSE IF ~answer.parses
    THEN [elements |-> <<AnalysisError("JSONDecodeError")>>, next |-> "footer"]
    ELSE [elements |-> <<>>, next |-> "sections"]

\* Lines 117-133 and 430-434: the row lookup, the feature vector, POST
\* /predict and the status check.  .iloc[0] on no row, a network failure and
\* an unparsable 200 body raise into the outer handler.
Predict ==
    /\ pc = "predict"
    /\ LET rows == Matching(test_clients.table, selected_client_id)
       IN IF rows = <<>>
          THEN /\ out' = Append(out, AnalysisError("IndexError"))
               /\ pc' = "footer"
               /\ UNCHANGED <<features, calls, response, inputs>>
          ELSE LET vector == FeatureVector(test_clients.table, rows[1])
               IN /\ features' = vector
                  /\ calls' = Append(calls, [kind |-> "predict", features |-> vector])
                  /\ \E answer \in PredictAnswers :
                       /\ response' = IF answer.kind = "exception" THEN response
                                      ELSE answer
                       /\ inputs' = Append(inputs, answer)
                       /\ out' = out \o AfterPredict(answer).elements
                       /\ pc' = AfterPredict(answer).next
    /\ UNCHANGED <<first, csv, cache, api_ok, gets, OPTIMAL_THRESHOLD, test_clients,
                   selected_client_id, age_filter, income_filter, shown, similar, explain_resp>>

\* ------------------------------------------------- sections 1 to 5
\* A section step takes and returns the progress of the analysis: the
\* elements rendered so far, the exception raised ("" while none), the values
\* displayed and the section-5 result.  A step after an exception does nothing.
Progress(o) == [out |-> o, exc |-> "", shown |-> NoShown, similar |-> NoSimilar]

Raise(st, e) == [st EXCEPT !.exc = e]

Render(st, elements) == [st EXCEPT !.out = st.out \o elements]

\* Series.mean(): the sum over the count, NaN for an empty series.
Mean(values) ==
    IF Len(values) = 0 THEN NaN
    ELSE [sum |-> SumSeq(values), n |-> Len(values)]

IsNaN(m) == m.n = 0

\* f"{x:.1%}" of an aggregate
PercentText(m) == IF IsNaN(m) THEN "nan%" ELSE "number%"

Column(rows, col) == [i \in 1..Len(rows) |-> rows[i][col]]

\* Lines 136-149: header and risk metric; result['risk_score'].
SectionRisk(st, body) ==
    IF st.exc # "" THEN st
    ELSE LET st1 == Render(st, << <<"header", "Analyse du Client">>,
                                  <<"subheader", "1">> >>)
         IN IF ~body.has_risk THEN Raise(st1, "KeyError: 'risk_score'")
            ELSE Render([st1 EXCEPT !.shown.risk = body.risk_score],
                        << <<"metric", "Risque de Defaut">> >>)

\* Lines 151-158: the decision metric shows result['decision'] as received.
SectionDecision(st, body) ==
    IF st.exc # "" THEN st
    ELSE IF ~body.has_decision THEN Raise(st, "KeyError: 'decision'")
    ELSE Render([st EXCEPT !.shown.decision = body.decision],
                << <<"metric", "Decision">> >>)

\* Lines 160-165: the threshold metric shows OPTIMAL_THRESHOLD.
SectionThreshold(st, threshold) ==
    IF st.exc # "" THEN st
    ELSE Render([st EXCEPT !.shown.threshold = threshold],
                << <<"metric", "Seuil decisionnel">> >>)

\* Lines 167-174: int(client_row['REAL_TARGET']).
SectionRealTarget(st, df, client_row) ==
    IF st.exc # "" THEN st
    ELSE IF ~HasColumn(df, "REAL_TARGET") THEN Raise(st, "KeyError: 'REAL_TARGET'")
    ELSE Render([st EXCEPT !.shown.real = client_row.REAL_TARGET],
                << <<"metric", "Statut reel">> >>)

\* Line 186: the colour of the gauge bar.
BarColor(risk, threshold) == IF risk >= threshold THEN "#FF4B4B" ELSE "#00CC00"

\* Lines 176-209: the gauge.
SectionGauge(st, threshold) ==
    IF st.exc # "" THEN st
    ELSE Render([st EXCEPT !.shown.bar = BarColor(st.shown.risk, threshold)],
                << <<"subheader", "2">>, <<"chart", "gauge">> >>)

\* Lines 211-279: histogram of RISK_SCORE and pie of DECISION.
SectionComparison(st, df) ==
    IF st.exc # "" THEN st
    ELSE LET st1 == Render(st, << <<"subheader", "3">> >>)
         IN IF ~HasColumn(df, "RISK_SCORE") THEN Raise(st1, "KeyError: 'RISK_SCORE'")
            ELSE LET st2 == Render(st1, << <<"chart", "histogram">> >>)
                 IN IF ~HasColumn(df, "DECISION") THEN Raise(st2, "KeyError: 'DECISION'")
                    ELSE Render(st2, << <<"chart", "pie">> >>)

\* Line 289
available_features(df) == Only(numeric_features, Range(df.cols))

\* Lines 281-338: two selectors over available_features (the second with
\* index=1, which needs two options) and the scatter plot.
SectionBivariate(st, df) ==
    IF st.exc # "" THEN st
    ELSE LET st1 == Render(st, << <<"subheader", "4">> >>)
         IN IF Len(available_features(df)) < 2
            THEN Raise(st1, "StreamlitAPIException")
            ELSE Render(st1, << <<"chart", "scatter">> >>)

\* Lines 348-351 with strict comparisons.
AgeInRange_exclusive(days_birth, age) ==
    /\ (0 - days_birth) * 100 > age[1] * DaysPerYearX100
    /\ (0 - days_birth) * 100 < age[2] * DaysPerYearX100

\* Lines 348-351: age_min <= -DAYS_BIRTH / 365.25 <= age_max, both inclusive
\* (compared exactly: the quotient of an integer by 365.25 never rounds across
\* an integer bound).
AgeInRange(days_birth, age) ==
    /\ (0 - days_birth) * 100 >= age[1] * DaysPerYearX100
    /\ (0 - days_birth) * 100 <= age[2] * DaysPerYearX100

\* Lines 348-351 with a second mask on the income range of the sidebar (the
\* pool's EXT_SOURCE_1 column stands for the log income).
similar_clients_byIncome(df, age) ==
    LET Test(r) == /\ AgeInRange(r.DAYS_BIRTH, age)
                   /\ r.EXT_SOURCE_1 >= income_filter[1]
                   /\ r.EXT_SOURCE_1 <= income_filter[2]
    IN SelectSeq(df.rows, Test)

\* Lines 348-351: the boolean mask on the derived age alone.
similar_clients(df, age) ==
    LET Test(r) == AgeInRange(r.DAYS_BIRTH, age)
    IN SelectSeq(df.rows, Test)

\* Line 368: (similar_clients['DECISION'] == 'ACCORD')
IsAccord(rows) == [i \in 1..Len(rows) |-> IF rows[i].DECISION = "ACCORD" THEN 1 ELSE 0]

\* Lines 340-381 with the aggregates computed as sum / len: an empty group
\* raises ZeroDivisionError.
SectionSimilar_div(st, df, age) ==
    IF st.exc # "" THEN st
    ELSE LET st1 == Render(st, << <<"subheader", "5">> >>)
         IN IF ~HasColumn(df, "DAYS_BIRTH") THEN st1
            ELSE LET subset == similar_clients(df, age)
                     avg_risk == Mean(Column(subset, "RISK_SCORE"))
                     approval_rate == Mean(IsAccord(subset))
                     default_rate == Mean(Column(subset, "REAL_TARGET"))
                     st2 == [st1 EXCEPT !.similar =
                               [computed |-> TRUE, rows |-> subset,
                                avg_risk |-> avg_risk,
                                approval_rate |-> approval_rate,
                                default_rate |-> default_rate]]
                 IN IF subset = <<>> THEN Raise(st2, "ZeroDivisionError")
                    ELSE Render(st2,
                           << <<"info", "Comparaison avec clients d'age similaire">>,
                              <<"metric", "Risque moyen du groupe", PercentText(avg_risk)>>,
                              <<"metric", "Taux d'acceptation", PercentText(approval_rate)>>,
                              <<"metric", "Taux de defaut reel", PercentText(default_rate)>> >>)

\* Lines 340-381: the group of similar age and its three aggregates; skipped
\* when the table has no DAYS_BIRTH column.
SectionSimilar(st, df, age) ==
    IF st.exc # "" THEN st
    ELSE LET st1 == Render(st, << <<"subheader", "5">> >>)
         IN IF ~HasColumn(df, "DAYS_BIRTH") THEN st1
            ELSE LET subset == similar_clients(df, age)
                     avg_risk == Mean(Column(subset, "RISK_SCORE"))
                     approval_rate == Mean(IsAccord(subset))
                     default_rate == Mean(Column(subset, "REAL_TARGET"))
                 IN Render([st1 EXCEPT !.similar =
                               [computed |-> TRUE, rows |-> subset,
                                avg_risk |-> avg_risk,
                                approval_rate |-> approval_rate,
                                default_rate |-> default_rate]],
                           << <<"info", "Comparaison avec clients d'age similaire">>,
                              <<"metric", "Risque moyen du groupe", PercentText(avg_risk)>>,
                              <<"metric", "Taux d'acceptation", PercentText(approval_rate)>>,
                              <<"metric", "Taux de defaut reel", PercentText(default_rate)>> >>)

\* Lines 133-381 in order.
Analysis(o, df, client_row, body, threshold, age) ==
    SectionSimilar(
      SectionBivariate(
        SectionComparison(
          SectionGauge(
            SectionRealTarget(
              SectionThreshold(
                SectionDecision(
                  SectionRisk(Progress(o), body),
                  body),
                threshold),
              df, client_row),
            threshold),
          df),
        df),
      df, age)

\* Lines 133-381 with the derived age stored as a new column of the table
\* (test_clients['AGE'] = ...) instead of being recomputed in the filter.
FrameAfterAnalysis_addsColumn(df) ==
    IF HasColumn(df.table, "DAYS_BIRTH")
    THEN [df EXCEPT !.table.cols = Append(@, "AGE")]
    ELSE df

\* Lines 133-381: test_clients after the analysis.  The sections only read the
\* frame: dropna, value_counts, sample and the boolean filter build new
\* objects, and nothing assigns to test_clients or to one of its columns.
FrameAfterAnalysis(df) == df

\* Lines 133-381 and 433-434: sections 1 to 5 after a 200 answer; the first
\* exception ends the analysis in the outer handler, what was rendered stays.
Sections ==
    /\ pc = "sections"
    /\ test_clients' = FrameAfterAnalysis(test_clients)
    /\ LET client_row == Matching(test_clients.table, selected_client_id)[1]
           st == Analysis(out, test_clients.table, client_row, response.body,
                          OPTIMAL_THRESHOLD, age_filter)
       IN /\ shown' = st.shown
          /\ similar' = st.similar
          /\ IF st.exc # ""
             THEN /\ out' = Append(st.out, AnalysisError(st.exc))
                  /\ pc' = "footer"
             ELSE /\ out' = st.out
                  /\ pc' = "explain"
    /\ UNCHANGED <<first, csv, cache, api_ok, gets, OPTIMAL_THRESHOLD,
                   selected_client_id, age_filter, income_filter, features,
                   calls, response, explain_resp, inputs>>

\* ------------------------------------------------- sections 6 and 7
ExplainUnavailable == <<"info", "L'explication detaillee des facteurs n'est pas disponible actuellement">>
ExplainFailed == <<"info", "Feature importance locale non disponible">>
ShapChart == <<"chart", "shap">>
Interpretation == <<"info", "interpretation">>

\* Lines 388-410 without the inner try block: a failure of the call shows as
\* the error of the outer handler.
ExplainElements_hard(answer) ==
    IF answer.kind = "exception" THEN <<AnalysisError("ConnectionError")>>
    ELSE IF answer.status_code # HttpOk THEN <<ExplainUnavailable>>
    ELSE IF ~answer.parses THEN <<AnalysisError("JSONDecodeError")>>
    ELSE IF ~answer.has_top_features THEN <<AnalysisError("KeyError: 'top_features'")>>
    ELSE IF ~answer.has_interpretation
    THEN <<ShapChart, AnalysisError("KeyError: 'interpretation'")>>
    ELSE <<ShapChart, Interpretation>>

\* Lines 388-410 for one answer: the elements the inner try block renders.  A
\* network failure, an unparsable body and a missing key raise into the inner
\* bare except; the chart rendered before a missing 'interpretation' stays.
ExplainElements(answer) ==
    IF answer.kind = "exception" THEN <<ExplainFailed>>
    ELSE IF answer.status_code # HttpOk THEN <<ExplainUnavailable>>
    ELSE IF ~answer.parses THEN <<ExplainFailed>>
    ELSE IF ~answer.has_top_features THEN <<ExplainFailed>>
    ELSE IF ~answer.has_interpretation THEN <<ShapChart, ExplainFailed>>
    ELSE <<ShapChart, Interpretation>>

\* Line 387: the JSON body of the explain call.
ExplainPayload(vector) == vector

\* Lines 383-410: POST /explain with the features of the predict call; every
\* outcome goes on to the synthesis.
Explain ==
    /\ pc = "explain"
    /\ calls' = Append(calls, [kind |-> "explain",
                               features |-> ExplainPayload(features)])
    /\ \E answer \in ExplainAnswers :
         /\ explain_resp' = answer
         /\ inputs' = Append(inputs, answer)
         /\ out' = out \o << <<"subheader", "6">> >> \o ExplainElements(answer)
    /\ pc' = "synthesis"
    /\ UNCHANGED <<first, csv, cache, api_ok, gets, OPTIMAL_THRESHOLD, test_clients,
                   selected_client_id, age_filter, income_filter, features,
                   response, shown, similar>>

SynthesisAccord == <<"success", "Credit Accorde", "inferieur au seuil">>
SynthesisRefus == <<"error", "Credit Refuse", "superieur au seuil">>

\* Lines 415-428: the block is chosen by the decision received, not by the
\* risk and the threshold its text quotes.
SynthesisElement(decision) ==
    IF decision = "ACCORD" THEN SynthesisAccord ELSE SynthesisRefus

\* Lines 412-428
Synthesis ==
    /\ pc = "synthesis"
    /\ out' = out \o << <<"subheader", "7">>, SynthesisElement(shown.decision) >>
    /\ pc' = "footer"
    /\ UNCHANGED <<first, csv, cache, api_ok, gets, OPTIMAL_THRESHOLD, test_clients,
                   selected_client_id, age_filter, income_filter, features,
                   calls, response, shown, similar, explain_resp, inputs>>

\* Lines 436-444
RenderFooter ==
    /\ pc = "footer"
    /\ out' = Append(out, Footer)
    /\ pc' = "done"
    /\ UNCHANGED <<first, csv, cache, api_ok, gets, OPTIMAL_THRESHOLD, test_clients,
                   selected_client_id, age_filter, income_filter, features,
                   calls, response, shown, similar, explain_resp, inputs>>

\* The next script run starts from its first line with fresh globals; only
\* the st.cache_data entry outlives the run.
ResetRun ==
    /\ pc' = "status"
    /\ api_ok' = FALSE
    /\ gets' = <<>>
    /\ OPTIMAL_THRESHOLD' = DefaultThreshold
    /\ test_clients' = None
    /\ selected_client_id' = 0
    /\ age_filter' = <<AgeSliderMin, AgeSliderMax>>
    /\ income_filter' = <<10, 20>>
    /\ features' = <<>>
    /\ calls' = <<>>
    /\ response' = NoResponse
    /\ shown' = NoShown
    /\ similar' = NoSimilar
    /\ explain_resp' = NoExplain
    /\ out' = <<>>
    /\ inputs' = <<>>
    /\ UNCHANGED <<csv, cache>>

\* The run has ended: footer rendered, st.stop(), or an uncaught exception.
Finished == pc \in {"done", "halted", "crashed"}

\* The next interaction: Streamlit runs the script again.
Rerun ==
    /\ Finished
    /\ ResetRun
    /\ UNCHANGED first

Next ==
    \/ CheckStatus
    \/ ModelInfo
    \/ LoadData
    \/ Sidebar
    \/ Predict
    \/ Sections
    \/ Explain
    \/ Synthesis
    \/ RenderFooter
    \/ Rerun

Spec == Init /\ [][Next]_vars

\* ------------------------------------------------- pairs of runs
\* Two runs of the script that get the same table, the same API answers, the
\* same selected client, age range and click, and any two income ranges: a run
\* of any kind finishes and is kept in `first`, then the script runs again with
\* the inputs of the kept run replayed.
PairLayouts ==
    { <<"SK_ID_CURR", "EXT_SOURCE_1", "DAYS_BIRTH", "AMT_CREDIT",
        "RISK_SCORE", "DECISION", "REAL_TARGET">>,
      <<"SK_ID_CURR", "EXT_SOURCE_1", "AMT_CREDIT",
        "RISK_SCORE", "DECISION", "REAL_TARGET">>,
      <<"EXT_SOURCE_1", "DAYS_BIRTH", "AMT_CREDIT",
        "RISK_SCORE", "DECISION", "REAL_TARGET">> }

PairFiles ==
    { [readable |-> FALSE, table |-> NoTable] } \cup
    { [readable |-> TRUE, table |-> [cols |-> l, rows |-> r]] :
        l \in PairLayouts,
        r \in UNION { [1..n -> RowPool] : n \in 0..MaxPairRows } }

InitPair ==
    /\ csv \in PairFiles
    /\ cache = [set |-> FALSE, val |-> None]
    /\ first = NoFirst
    /\ FreshRun

\* The inputs this run has got so far are those the kept run got.
Replaying ==
    first.set =>
        /\ Len(inputs) <= Len(first.inputs)
        /\ inputs = SubSeq(first.inputs, 1, Len(inputs))

\* A finished run is kept and the script runs again.
StartReplay ==
    /\ Finished
    /\ ~first.set
    /\ first' = [set |-> TRUE, inputs |-> inputs, income |-> income_filter,
                 outcome |-> Outcome]
    /\ ResetRun

\* The replayed run has finished: the pair is dropped, the script runs again.
EndReplay ==
    /\ Finished
    /\ first.set
    /\ first' = NoFirst
    /\ ResetRun

NextPair ==
    \/ CheckStatus /\ Replaying'
    \/ ModelInfo /\ Replaying'
    \/ LoadData
    \/ Sidebar /\ Replaying'
    \/ Predict /\ Replaying'
    \/ Sections
    \/ Explain /\ Replaying'
    \/ Synthesis
    \/ RenderFooter
    \/ StartReplay
    \/ EndReplay

SpecPair == InitPair /\ [][NextPair]_vars

\* ================================================================ claims
Kinds(o) == { o[i][1] : i \in 1..Len(o) }

\* An element of the result sections (metrics, gauge, comparisons, synthesis).
ResultRendered ==
    \/ Kinds(out) \cap {"header", "subheader", "metric", "chart"} # {}
    \/ Rendered(out, SynthesisAccord)
    \/ Rendered(out, SynthesisRefus)

\* The outer handler's "Erreur lors de l'analyse" element is on the page.
OuterError ==
    \E i \in 1..Len(out) : Len(out[i]) = 3 /\ out[i][2] = "Erreur lors de l'analyse : "

PredictAnswered == response.kind = "http"

PredictFailedStatus == PredictAnswered /\ response.status_code # 200

\* C1: a click issues at most two POST calls, predict first, then explain;
\* explain is issued only after the predict call of that click answered 200,
\* carries the feature vector of the predict call, and no call is issued twice.
C1_PredictThenExplain ==
    /\ Len(calls) <= 2
    /\ Len(calls) >= 1 => calls[1].kind = "predict"
    /\ Len(calls) = 2 =>
         /\ calls[2].kind = "explain"
         /\ PredictAnswered /\ response.status_code = 200
         /\ calls[2].features = calls[1].features

C1_Witness ==
    /\ pc = "done"
    /\ Len(calls) = 2
    /\ calls[2].features = <<12, -10958, 22>>

\* C2 as stated: on a non-200 predict answer the reported error contains the
\* HTTP status and the response body, no result section is rendered and no
\* explain call is issued.
C2_ErrorHasStatusAndBody ==
    PredictFailedStatus =>
        /\ \E i \in 1..Len(out) :
             /\ out[i][1] = "error"
             /\ StatusText(response.status_code) \in Range(out[i])
             /\ response.text \in Range(out[i])
        /\ ~ResultRendered
        /\ Len(calls) = 1

\* C2 as amended: on a non-200 predict answer the reported error contains the
\* HTTP status, and no element of the page contains the response body; no
\* result section is rendered, no explain call is issued, and the run goes on
\* to the footer only.
C2_ErrorHasStatusOnly ==
    PredictFailedStatus =>
        /\ \E i \in 1..Len(out) :
             /\ out[i][1] = "error"
             /\ StatusText(response.status_code) \in Range(out[i])
        /\ \A i \in 1..Len(out) : response.text \notin Range(out[i])
        /\ ~ResultRendered
        /\ Len(calls) = 1
        /\ pc \in {"footer", "done"}

C2_Witness ==
    /\ pc = "done"
    /\ PredictFailedStatus
    /\ response.status_code = 422
    /\ response.text = "Internal Server Error"

ExplainAnswered == explain_resp.kind # "none"

ExplainSucceeded ==
    /\ explain_resp.kind = "http"
    /\ explain_resp.status_code = 200
    /\ explain_resp.parses
    /\ explain_resp.has_top_features
    /\ explain_resp.has_interpretation

\* C3: after a 200 predict answer, a failed explain call (exception, non-200,
\* body without top_features or interpretation) leaves a soft notice of kind
\* info and no interpretation; the run goes on to the synthesis, which shows
\* the decision of the predict answer, and never shows the outer error.
C3_ExplainFailureIsSoft ==
    (ExplainAnswered /\ ~ExplainSucceeded) =>
        /\ response.status_code = 200
        /\ Rendered(out, ExplainFailed) \/ Rendered(out, ExplainUnavailable)
        /\ ~Rendered(out, Interpretation)
        /\ ~OuterError
        /\ pc \in {"synthesis", "footer", "done"}
        /\ pc \in {"footer", "done"} =>
             /\ Rendered(out, <<"subheader", "7">>)
             /\ Rendered(out, IF response.body.decision = "ACCORD"
                              THEN SynthesisAccord ELSE SynthesisRefus)

C3_Witness ==
    /\ pc = "done"
    /\ explain_resp.kind = "http" /\ explain_resp.status_code = 200
    /\ explain_resp.has_top_features /\ ~explain_resp.has_interpretation
    /\ Rendered(out, SynthesisRefus)

\* C4: a POST call is issued only in a run whose status check answered
\* 'operational', that requested /model/info and that loaded the dataset; a run
\* whose status check failed or whose dataset is unreadable halts with no
\* selector, no button and no POST call.
C4_CallsOnlyAfterStartup ==
    /\ calls # <<>> =>
         /\ api_ok
         /\ gets = <<"/status", "/model/info">>
         /\ csv.readable /\ test_clients = csv
    /\ (pc # "status" /\ ~api_ok) => pc = "halted"
    /\ ~csv.readable => pc \in {"status", "model_info", "load", "halted"}
    /\ pc = "halted" =>
         /\ calls = <<>>
         /\ selected_client_id = 0
         /\ ~api_ok \/ ~csv.readable

C4_Witness ==
    /\ calls # <<>>
    /\ gets = <<"/status", "/model/info">>
    /\ Rendered(out, ModelWarning)

Reserved == {"SK_ID_CURR", "RISK_SCORE", "DECISION", "REAL_TARGET"}

\* The record the selector's identifier designates: the first row carrying it.
SelectedRecord ==
    LET rows == csv.table.rows
        index == CHOOSE i \in 1..Len(rows) :
                    /\ rows[i].SK_ID_CURR = selected_client_id
                    /\ \A j \in 1..(i - 1) : rows[j].SK_ID_CURR # selected_client_id
    IN rows[index]

\* C5: the vector sent to /predict holds the selected record's values of the
\* columns other than the four reserved ones, in table column order, and none
\* else; for a table holding the four reserved columns its length is the
\* number of columns minus 4.
C5_FeatureVector ==
    calls # <<>> =>
        LET cols == csv.table.cols
            IsFeature(c) == c \notin Reserved
            wanted == SelectSeq(cols, IsFeature)
            sent == calls[1].features
        IN /\ Reserved \subseteq Range(cols) => Len(sent) = Len(cols) - 4
           /\ Len(sent) = Len(wanted)
           /\ \A i \in 1..Len(wanted) : sent[i] = SelectedRecord[wanted[i]]

C5_Witness ==
    /\ calls # <<>>
    /\ csv.table.cols[1] = "EXT_SOURCE_1"
    /\ Len(csv.table.rows) = 2
    /\ csv.table.rows[1].SK_ID_CURR = 100001
    /\ selected_client_id = 100002
    /\ calls[1].features = <<12, -10958, 22>>

\* C6 as stated: the decision label shown is ACCORD exactly when the shown
\* risk is strictly below the shown threshold, the shown threshold is the one
\* the predict answer declares, and a server decision that disagrees with the
\* thresholding is flagged on the page.
C6_LabelMatchesThreshold ==
    (shown.decision # "" /\ shown.threshold >= 0) =>
        /\ (shown.decision = "ACCORD") <=> (shown.risk < shown.threshold)
        /\ shown.threshold = response.body.threshold
        /\ ((response.body.decision = "ACCORD") # (shown.risk < shown.threshold))
             => "mismatch" \in Kinds(out)

\* C7: an analysis whose age-filtered group is empty shows the three group
\* aggregates as undefined values (nan), raises nothing, and goes on to the
\* explanation and the synthesis.
C7_EmptyGroupIsNaN ==
    (similar.computed /\ similar.rows = <<>>) =>
        /\ IsNaN(similar.avg_risk)
        /\ IsNaN(similar.approval_rate)
        /\ IsNaN(similar.default_rate)
        /\ Rendered(out, <<"metric", "Risque moyen du groupe", "nan%">>)
        /\ Rendered(out, <<"metric", "Taux d'acceptation", "nan%">>)
        /\ Rendered(out, <<"metric", "Taux de defaut reel", "nan%">>)
        /\ ~OuterError
        /\ pc \in {"explain", "synthesis", "footer", "done"}
        /\ pc \in {"footer", "done"} =>
             /\ Rendered(out, <<"subheader", "6">>)
             /\ Rendered(out, <<"subheader", "7">>)
             /\ Rendered(out, SynthesisAccord) \/ Rendered(out, SynthesisRefus)

C7_Witness ==
    /\ pc = "done"
    /\ similar.computed
    /\ similar.rows = <<>>
    /\ csv.table.rows # <<>>
    /\ age_filter = <<40, 70>>

\* A fraction sum / n lies in [0, 1] when the values were scaled by `scale`.
InUnitInterval(m, scale) == m.n > 0 /\ 0 <= m.sum /\ m.sum <= scale * m.n

\* The table satisfies the premise of C8.
WellFormedTable ==
    \A i \in 1..Len(csv.table.rows) :
        /\ csv.table.rows[i].RISK_SCORE \in 0..100
        /\ csv.table.rows[i].DECISION \in {"ACCORD", "REFUS"}
        /\ csv.table.rows[i].REAL_TARGET \in {0, 1}

\* C8: the group of section 5 holds exactly the rows of the table, in table
\* order, whose age -DAYS_BIRTH / 365.25 lies in the closed selected range; when
\* it is not empty, mean risk, share of ACCORD rows and mean REAL_TARGET are
\* taken over it and each lies in [0, 1].
C8_GroupAndAggregates ==
    similar.computed =>
        LET lo == age_filter[1]
            hi == age_filter[2]
            InRange(r) == /\ lo * 36525 <= (0 - r.DAYS_BIRTH) * 100
                          /\ (0 - r.DAYS_BIRTH) * 100 <= hi * 36525
            group == SelectSeq(csv.table.rows, InRange)
            n == Len(group)
            accords == Cardinality({i \in 1..n : group[i].DECISION = "ACCORD"})
            defaults == Cardinality({i \in 1..n : group[i].REAL_TARGET = 1})
        IN /\ similar.rows = group
           /\ (n > 0 /\ WellFormedTable) =>
                /\ similar.approval_rate = [sum |-> accords, n |-> n]
                /\ similar.default_rate = [sum |-> defaults, n |-> n]
                /\ similar.avg_risk.n = n
                /\ similar.avg_risk.sum = SumSeq([i \in 1..n |-> group[i].RISK_SCORE])
                /\ InUnitInterval(similar.avg_risk, 100)
                /\ InUnitInterval(similar.approval_rate, 1)
                /\ InUnitInterval(similar.default_rate, 1)

C8_Witness ==
    /\ similar.computed
    /\ Len(csv.table.rows) = 2
    /\ Len(similar.rows) = 1
    /\ similar.rows[1].DAYS_BIRTH = -7305
    /\ age_filter = <<20, 20>>
    /\ similar.approval_rate = [sum |-> 1, n |-> 1]

\* C9 as stated: no run ends in an uncaught exception; a run either halts at
\* startup with an error element (API not operational, dataset unreadable) or
\* reaches the footer.
C9_EveryFailureCaught ==
    /\ pc # "crashed"
    /\ pc = "halted" =>
         Rendered(out, ApiErrorElement) \/ Rendered(out, DataUnavailable)
    /\ pc = "done" => Rendered(out, Footer)

\* C10: the table a run works on is the table loaded from the file, with the
\* same rows, columns and values, at every step of every run; the cache entry
\* holds it unchanged once set; and a run starts with nothing of the previous
\* runs but that entry.
C10_TableReadOnly ==
    /\ cache.set => cache.val = (IF csv.readable THEN csv ELSE None)
    /\ test_clients \in {None, csv}
    /\ pc \in {"sidebar", "predict", "sections", "explain", "synthesis",
               "footer", "done", "crashed"} => test_clients = csv
    /\ pc = "status" => FreshRun

C10_Witness ==
    /\ pc = "done"
    /\ Len(calls) = 2
    /\ similar.computed
    /\ Len(similar.rows) < Len(test_clients.table.rows)
    /\ cache.set

\* C11: two runs that differ only in the income range (same table, same
\* selected client, same age range, same click, same API answers) end alike:
\* the replayed run gets through all the inputs of the kept run and ends with
\* the same requests, the same group and aggregates, the same displayed values
\* and the same rendered elements.
C11_IncomeHasNoInfluence ==
    (first.set /\ Finished) =>
        /\ inputs = first.inputs
        /\ Outcome = first.outcome

C11_Witness ==
    /\ first.set
    /\ pc = "done"
    /\ income_filter # first.income
    /\ inputs = first.inputs
    /\ Len(calls) = 2
    /\ similar.computed
    /\ similar.rows # <<>>

====
